---------------------------- MODULE Spec2Model ----------------------------
(***************************************************************************)
(* Model of reddit_subreddit_scraper.py: the field parsers, the per-post   *)
(* extraction of scrape_subreddit, the idempotent insert and the           *)
(* run_scraper scheduling loop.                                            *)
(*                                                                         *)
(* Text is a sequence of one-character strings.  Time is in seconds, the   *)
(* clock reads 0 when the process starts (earlier instants are negative).  *)
(***************************************************************************)
EXTENDS Integers, Sequences, FiniteSets, TLC

(***************************************************************************)
(* Program constants (module level of the source).                         *)
(***************************************************************************)
BATCH_MIN == 13
BATCH_MAX == 31
LOOP_DELAY_MIN_SEC == 360
LOOP_DELAY_MAX_SEC == 1080
SUBREDDIT_COOLDOWN_MIN_SEC == 13
SUBREDDIT_COOLDOWN_MAX_SEC == 31
POST_MAX_AGE_HOURS == 4
BACKOFF_MIN_SEC == 120
BACKOFF_MAX_SEC == 240
HOUR == 3600
MINUTE == 60

(***************************************************************************)
(* Bounds of the model.                                                    *)
(***************************************************************************)
MaxForums == 2
MaxBatch == 2
MaxPosts == 2
MaxClock == 380
MaxTextLen == 3

(***************************************************************************)
(* Optional values: None is the empty tuple, Some(v) the one-element tuple. *)
(* NoError is the "raised" field of a call that returns normally.          *)
(***************************************************************************)
None == <<>>
Some(v) == <<v>>
Val(o) == o[1]
NoError == "no error"
ValueError == "ValueError"
OverflowError == "OverflowError"

(***************************************************************************)
(* str methods used by the source, on sequences of characters.             *)
(***************************************************************************)
\* the placeholder character U+2022 shown when the score is hidden
Bullet == "<U+2022>"

Whitespace == {" ", "\t", "\n"}
Digits == {"0", "1", "2", "3", "4", "5", "6", "7", "8", "9"}
UpperAlpha == <<"A","B","C","D","E","F","G","H","I","J","K","L","M",
                "N","O","P","Q","R","S","T","U","V","W","X","Y","Z">>
LowerAlpha == <<"a","b","c","d","e","f","g","h","i","j","k","l","m",
                "n","o","p","q","r","s","t","u","v","w","x","y","z">>

RECURSIVE lstrip(_)
lstrip(s) ==
    IF s # <<>> /\ Head(s) \in Whitespace THEN lstrip(Tail(s)) ELSE s

RECURSIVE rstrip(_)
rstrip(s) ==
    IF s # <<>> /\ s[Len(s)] \in Whitespace
    THEN rstrip(SubSeq(s, 1, Len(s) - 1))
    ELSE s

strip(s) == rstrip(lstrip(s))

lower_char(c) ==
    IF \E i \in 1..26 : UpperAlpha[i] = c
    THEN LowerAlpha[CHOOSE i \in 1..26 : UpperAlpha[i] = c]
    ELSE c

lower(s) == [i \in 1..Len(s) |-> lower_char(s[i])]

startswith(s, p) == Len(p) <= Len(s) /\ SubSeq(s, 1, Len(p)) = p

endswith(s, p) ==
    Len(p) <= Len(s) /\ SubSeq(s, Len(s) - Len(p) + 1, Len(s)) = p

\* p in s
contains(s, p) ==
    \E i \in 1..(Len(s) + 1) :
        i + Len(p) - 1 <= Len(s) /\ SubSeq(s, i, i + Len(p) - 1) = p

\* s.replace(old, ""), old non-empty: leftmost non-overlapping occurrences
RECURSIVE remove(_, _)
remove(s, old) ==
    IF s = <<>> THEN <<>>
    ELSE IF startswith(s, old)
         THEN remove(SubSeq(s, Len(old) + 1, Len(s)), old)
         ELSE <<Head(s)>> \o remove(Tail(s), old)

\* s.replace(old, new), old non-empty
RECURSIVE replace(_, _, _)
replace(s, old, new) ==
    IF s = <<>> THEN <<>>
    ELSE IF startswith(s, old)
         THEN new \o replace(SubSeq(s, Len(old) + 1, Len(s)), old, new)
         ELSE <<Head(s)>> \o replace(Tail(s), old, new)

\* length of the leading run of non-whitespace characters
RECURSIVE word_len(_)
word_len(s) ==
    IF s = <<>> \/ Head(s) \in Whitespace THEN 0 ELSE 1 + word_len(Tail(s))

\* s.split(): the whitespace-separated words; t is s without leading blanks
RECURSIVE split_words(_)
split_words(t) ==
    IF t = <<>> THEN <<>>
    ELSE <<SubSeq(t, 1, word_len(t))>>
            \o split_words(lstrip(SubSeq(t, word_len(t) + 1, Len(t))))

split(s) == split_words(lstrip(s))

\* index of the first occurrence of sep in s, 0 when there is none
find(s, sep) ==
    IF contains(s, sep)
    THEN CHOOSE i \in 1..Len(s) :
            /\ i + Len(sep) - 1 <= Len(s)
            /\ SubSeq(s, i, i + Len(sep) - 1) = sep
            /\ \A j \in 1..(i - 1) : SubSeq(s, j, j + Len(sep) - 1) # sep
    ELSE 0

\* s.split(sep), sep non-empty; i is find(s, sep)
RECURSIVE split_at(_, _, _)
split_at(s, sep, i) ==
    IF i = 0 THEN <<s>>
    ELSE <<SubSeq(s, 1, i - 1)>>
            \o split_at(SubSeq(s, i + Len(sep), Len(s)), sep,
                        find(SubSeq(s, i + Len(sep), Len(s)), sep))

split_on(s, sep) == split_at(s, sep, find(s, sep))

(***************************************************************************)
(* float(text).  A float is [kind, neg, num, den]: kind "fin" is the       *)
(* finite value (+/-) num/den, kinds "inf" and "nan" the non-finite ones,  *)
(* kind "err" is ValueError.  Grammar: optional surrounding whitespace, an *)
(* optional sign, then inf | infinity | nan | digits [. digits]            *)
(* [e [sign] digits], with at least one digit in the mantissa.             *)
(***************************************************************************)
RECURSIVE digits_len(_)
digits_len(s) ==
    IF s = <<>> \/ Head(s) \notin Digits THEN 0 ELSE 1 + digits_len(Tail(s))

digit_val(c) == CHOOSE v \in 0..9 : <<"0","1","2","3","4","5","6","7","8","9">>[v + 1] = c

RECURSIVE digits_val(_)
digits_val(s) ==
    IF s = <<>> THEN 0
    ELSE 10 * digits_val(SubSeq(s, 1, Len(s) - 1)) + digit_val(s[Len(s)])

RECURSIVE pow10(_)
pow10(n) == IF n <= 0 THEN 1 ELSE 10 * pow10(n - 1)

FloatErr == [kind |-> "err", neg |-> FALSE, num |-> 0, den |-> 1]

Finite(neg, num, den) == [kind |-> "fin", neg |-> neg, num |-> num, den |-> den]

\* the value of mantissa digits m with nf of them after the point, times 10^ex
float_value(neg, m, nf, ex) ==
    Finite(neg, digits_val(m) * pow10(ex - nf), pow10(nf - ex))

\* the exponent: r follows the "e", its sign already taken off
float_exponent(neg, m, nf, eneg, r) ==
    IF r = <<>> \/ digits_len(r) # Len(r) THEN FloatErr
    ELSE float_value(neg, m, nf,
                     IF eneg THEN 0 - digits_val(r) ELSE digits_val(r))

\* what follows the mantissa: nothing, or e [sign] digits
float_tail(neg, m, nf, r) ==
    IF m = <<>> THEN FloatErr
    ELSE IF r = <<>> THEN float_value(neg, m, nf, 0)
    ELSE IF Head(r) # "e" THEN FloatErr
    ELSE IF Len(r) > 1 /\ r[2] \in {"+", "-"}
         THEN float_exponent(neg, m, nf, r[2] = "-", SubSeq(r, 3, Len(r)))
         ELSE float_exponent(neg, m, nf, FALSE, Tail(r))

\* the fraction: ipart are the integer digits, r follows the point
float_fraction(neg, ipart, r) ==
    float_tail(neg, ipart \o SubSeq(r, 1, digits_len(r)), digits_len(r),
               SubSeq(r, digits_len(r) + 1, Len(r)))

\* the mantissa: ni leading digits of u, then an optional point and fraction
float_mantissa(neg, u, ni) ==
    IF ni < Len(u) /\ u[ni + 1] = "."
    THEN float_fraction(neg, SubSeq(u, 1, ni), SubSeq(u, ni + 2, Len(u)))
    ELSE float_tail(neg, SubSeq(u, 1, ni), 0, SubSeq(u, ni + 1, Len(u)))

float_unsigned(u, neg) ==
    IF u \in {<<"i","n","f">>, <<"i","n","f","i","n","i","t","y">>}
    THEN [kind |-> "inf", neg |-> neg, num |-> 0, den |-> 1]
    ELSE IF u = <<"n","a","n">>
    THEN [kind |-> "nan", neg |-> neg, num |-> 0, den |-> 1]
    ELSE float_mantissa(neg, u, digits_len(u))

\* t is the text stripped and lowered
float_signed(t) ==
    IF t # <<>> /\ Head(t) \in {"+", "-"}
    THEN float_unsigned(Tail(t), Head(t) = "-")
    ELSE float_unsigned(t, FALSE)

float(text) == float_signed(lower(strip(text)))

\* int(x) of a finite float times an integer: truncation toward zero
trunc_mul(f, m) ==
    IF f.neg THEN 0 - ((f.num * m) \div f.den) ELSE (f.num * m) \div f.den

(***************************************************************************)
(* parse_score_text: [raised, value]; raised is NoError or the exception   *)
(* that leaves the function.                                               *)
(***************************************************************************)
Returns(v) == [raised |-> NoError, value |-> v]
Raises(e) == [raised |-> e, value |-> 0]

score_cleaned(score_text) ==
    LET c1 == remove(remove(lower(strip(score_text)),
                            <<"p","o","i","n","t","s">>),
                     <<"p","o","i","n","t">>)
    IN  strip(remove(remove(c1, <<"v","o","t","e","s">>),
                     <<"v","o","t","e">>))

\* int(value * multiplier) inside the try: ValueError is caught, others leave
score_convert(value, multiplier) ==
    CASE value.kind = "err" -> Returns(0)
      [] value.kind = "nan" -> Returns(0)
      [] value.kind = "inf" -> Raises(OverflowError)
      [] OTHER              -> Returns(trunc_mul(value, multiplier))

\* lines 75-85 with the trailing "k" cut off but the multiplier left at 1
score_of_cleaned_unscaled(cleaned) ==
    IF cleaned = <<>> \/ cleaned = <<Bullet>>
    THEN Returns(0)
    ELSE IF endswith(cleaned, <<"k">>)
    THEN score_convert(float(SubSeq(cleaned, 1, Len(cleaned) - 1)), 1)
    ELSE score_convert(float(cleaned), 1)

\* lines 75-85 on the cleaned text
score_of_cleaned(cleaned) ==
    IF cleaned = <<>> \/ cleaned = <<Bullet>>
    THEN Returns(0)
    ELSE IF endswith(cleaned, <<"k">>)
    THEN score_convert(float(SubSeq(cleaned, 1, Len(cleaned) - 1)), 1000)
    ELSE score_convert(float(cleaned), 1)

parse_score_text(score_text) == score_of_cleaned(score_cleaned(score_text))

(***************************************************************************)
(* parse_age_text(age_text) with now = datetime.utcnow() read on entry.    *)
(* timedelta(unit=amount) is amount * unit seconds rounded half to even to *)
(* whole microseconds, kept as [neg, days, sec, micro]; it raises on a     *)
(* non-finite amount and beyond MAX_DELTA_DAYS.  A datetime is             *)
(* [sec, micro]: whole seconds on the clock and the microseconds past      *)
(* them.  now - delta raises OverflowError when it leaves                  *)
(* datetime.min..datetime.max, which a delta of more than                  *)
(* DATETIME_SPAN_DAYS does from every now.  The result is [raised, value]  *)
(* with value None or Some(datetime).                                      *)
(***************************************************************************)
MICRO == 1000000
DAY == 86400
MAX_DELTA_DAYS == 999999999
DATETIME_SPAN_DAYS == 3652058

Stamp(sec, micro) == [sec |-> sec, micro |-> micro]

JUST_NOW == <<"j","u","s","t"," ","n","o","w">>
MOMENTS_AGO == <<"m","o","m","e","n","t","s"," ","a","g","o">>

age_amount(amount_str) ==
    IF amount_str \in {<<"a">>, <<"a","n">>}
    THEN [kind |-> "fin", neg |-> FALSE, num |-> 1, den |-> 1]
    ELSE float(amount_str)

\* seconds per unit, 0 for an unrecognized unit
age_unit_seconds(unit) ==
    IF contains(unit, <<"m","i","n">>) THEN MINUTE
    ELSE IF contains(unit, <<"h","o","u","r">>) \/ unit = <<"h">> THEN HOUR
    ELSE IF contains(unit, <<"s","e","c">>) \/ unit = <<"s">> THEN 1
    ELSE 0

\* q microseconds and r2/den of one more: round half to even
micro_round(q, r2, den) ==
    IF 2 * r2 > den \/ (2 * r2 = den /\ q % 2 = 1) THEN q + 1 ELSE q

\* rem/den seconds in microseconds
micro_of(rem, den) ==
    micro_round((rem * MICRO) \div den, (rem * MICRO) % den, den)

\* the carry of a fraction that rounds up to a whole second
Delta(neg, days, sec, micro) ==
    IF micro < MICRO
    THEN [neg |-> neg, days |-> days, sec |-> sec, micro |-> micro]
    ELSE [neg |-> neg, days |-> days + (sec + 1) \div DAY,
          sec |-> (sec + 1) % DAY, micro |-> 0]

\* n/den seconds, less than a day
delta_of_seconds(neg, days, n, den) ==
    Delta(neg, days, n \div den, micro_of(n % den, den))

\* the whole days taken off first; per_day is the number of units in a day
delta_of_days(amount, unit_seconds, days, per_day) ==
    delta_of_seconds(amount.neg, days,
                     (amount.num - days * per_day * amount.den) * unit_seconds,
                     amount.den)

whole_days(amount, per_day) == (amount.num \div amount.den) \div per_day

timedelta(amount, unit_seconds) ==
    CASE amount.kind = "inf" -> Raises(OverflowError)
      [] amount.kind = "nan" -> Raises(ValueError)
      [] whole_days(amount, DAY \div unit_seconds) > MAX_DELTA_DAYS
                             -> Raises(OverflowError)
      [] OTHER               ->
            Returns(delta_of_days(amount, unit_seconds,
                                  whole_days(amount, DAY \div unit_seconds),
                                  DAY \div unit_seconds))

\* now minus s seconds and micro microseconds, or plus them when neg
stamp_minus(now, neg, s, micro) ==
    IF neg THEN Stamp(now + s, micro)
    ELSE IF micro = 0 THEN Stamp(now - s, 0)
    ELSE Stamp(now - s - 1, MICRO - micro)

\* lines 115: now - delta, unless timedelta raised
age_subtract(now, delta) ==
    IF delta.raised # NoError THEN delta
    ELSE IF delta.value.days > DATETIME_SPAN_DAYS THEN Raises(OverflowError)
    ELSE Returns(Some(stamp_minus(now, delta.value.neg,
                                  delta.value.days * DAY + delta.value.sec,
                                  delta.value.micro)))

\* lines 106-115 with the amount parsed and the unit in seconds
age_of_amount(now, amount, usec) ==
    IF amount.kind = "err" THEN Returns(None)
    ELSE IF usec = 0 THEN Returns(None)
    ELSE age_subtract(now, timedelta(amount, usec))

\* lines 95-115 on the words of the text
age_of_parts(now, parts) ==
    IF parts = <<>> THEN Returns(None)
    ELSE age_of_amount(now, age_amount(parts[1]),
                       age_unit_seconds(IF Len(parts) > 1 THEN parts[2]
                                                          ELSE <<>>))

\* lines 91-115 on the stripped, lowered text
age_of_text(now, t) ==
    IF t = <<>> THEN Returns(None)
    ELSE IF t \in {JUST_NOW, MOMENTS_AGO} THEN Returns(Some(Stamp(now, 0)))
    ELSE age_of_parts(now, split(t))

parse_age_text(age_text, now) == age_of_text(now, lower(strip(age_text)))

(***************************************************************************)
(* datetime.fromisoformat(datetime_str.replace("Z", "+00:00")).  The       *)
(* attribute is [iso, wall, tz]: whether it is ISO-8601 text at all, the   *)
(* wall-clock reading in seconds and the offset suffix as written.  The    *)
(* result is [wall, utcoffset]; utcoffset None is a naive datetime.        *)
(***************************************************************************)
IsoText(wall, tz) == [iso |-> TRUE, wall |-> wall, tz |-> tz]
Garbage == [iso |-> FALSE, wall |-> 0, tz |-> <<>>]
TZ_Z == <<"Z">>
TZ_UTC == <<"+","0","0",":","0","0">>
TZ_PLUS5 == <<"+","0","5",":","0","0">>
TZ_MINUS5 == <<"-","0","5",":","0","0">>

\* the offset a suffix denotes; fromisoformat of this model rejects a bare Z
tz_offset(tz) ==
    CASE tz = <<>>      -> Returns(None)
      [] tz = TZ_UTC    -> Returns(Some(0))
      [] tz = TZ_PLUS5  -> Returns(Some(5 * HOUR))
      [] tz = TZ_MINUS5 -> Returns(Some(0 - 5 * HOUR))
      [] OTHER          -> Raises(ValueError)

aware(wall, off) ==
    IF off.raised # NoError THEN off
    ELSE Returns(Some([wall |-> wall, utcoffset |-> off.value]))

fromisoformat(datetime_str) ==
    IF ~datetime_str.iso THEN Raises(ValueError)
    ELSE aware(datetime_str.wall,
               tz_offset(replace(datetime_str.tz, <<"Z">>, TZ_UTC)))

\* datetime_value.replace(tzinfo=None)
replace_tzinfo_none(dt) == dt.wall

\* the instant in UTC that an aware datetime denotes
utc_instant(dt) ==
    IF dt.utcoffset = None THEN dt.wall ELSE dt.wall - Val(dt.utcoffset)

(***************************************************************************)
(* The store behind insert_reddit_post: the set of rows of reddit_posts.   *)
(* INSERT ... ON CONFLICT (post_id) DO NOTHING, seen_at = NOW().           *)
(***************************************************************************)
Row(subreddit, post_id, post_url, score, created_at, db_now) ==
    [subreddit |-> subreddit, post_id |-> post_id, post_url |-> post_url,
     score |-> score, created_at |-> created_at,
     seen_at |-> db_now, commented |-> FALSE]

on_conflict(rows, post_id) == \E r \in rows : r.post_id = post_id

\* ON CONFLICT (post_id) DO UPDATE instead of DO NOTHING
insert_reddit_post_upsert(rows, subreddit, post_id, post_url, score, created_at, db_now) ==
    {r \in rows : r.post_id # post_id}
        \cup {Row(subreddit, post_id, post_url, score, created_at, db_now)}

insert_reddit_post(rows, subreddit, post_id, post_url, score, created_at, db_now) ==
    IF on_conflict(rows, post_id)
    THEN rows
    ELSE rows \cup {Row(subreddit, post_id, post_url, score, created_at, db_now)}

(***************************************************************************)
(* One iteration of the "for post in posts" loop of scrape_subreddit on    *)
(* the post element e.  An element is                                      *)
(*   [h3, anchor, datetime, permalink_el, href, score, dom_error]          *)
(* h3: Some(title text), None without an h3;  anchor: Some(inner text of   *)
(* the timestamp anchor), None without one;  datetime: Some(datetime       *)
(* attribute of the time element), None without one;  permalink_el:        *)
(* whether a permalink element exists;  href: Some(its href), None without *)
(* one;  score: Some(score text), None without a score element;            *)
(* dom_error: the DOM read on this element that raises, "" for none.       *)
(* now_parse is utcnow() as parse_age_text reads it, now_check as the      *)
(* staleness check reads it; no await separates the two reads, and at the  *)
(* granularity of one second they are the same reading.                    *)
(***************************************************************************)
ORIGIN == <<"h","t","t","p","s",":","/","/","w","w","w",".","r","e","d","d","i","t",".","c","o","m">>
COMMENTS_MARKER == <<"/","c","o","m","m","e","n","t","s","/">>
UNKNOWN == <<"u","n","k","n","o","w","n">>
PlaywrightError == "PlaywrightError"
PostgresError == "PostgresError"

\* except ValueError: datetime_value = None
iso_or_none(iso) == IF iso.raised = ValueError THEN None ELSE iso.value

\* the datetime attribute parsed, None when absent or not ISO-8601
attribute_datetime(e) ==
    IF e.anchor = None \/ e.datetime = None THEN None
    ELSE iso_or_none(fromisoformat(Val(e.datetime)))

\* the result of parse_age_text as a naive datetime; wall keeps its whole
\* seconds (an age exceeds the window exactly when they do)
naive(aged) ==
    IF aged.raised # NoError THEN aged
    ELSE IF aged.value = None THEN Returns(None)
    ELSE Returns(Some([wall |-> Val(aged.value).sec, utcoffset |-> None]))

\* the fallback to the anchor text when the attribute gave nothing
datetime_or_age(e, attr, now_parse) ==
    IF attr # None THEN Returns(attr)
    ELSE IF e.anchor = None THEN Returns(None)
    ELSE naive(parse_age_text(strip(Val(e.anchor)), now_parse))

\* [raised, value]; value is None or Some([wall, utcoffset])
post_datetime(e, now_parse) ==
    datetime_or_age(e, attribute_datetime(e), now_parse)

\* the distance between the two times, whichever comes first
age_seconds_magnitude(dt, now_check) ==
    IF now_check >= replace_tzinfo_none(dt)
    THEN now_check - replace_tzinfo_none(dt)
    ELSE replace_tzinfo_none(dt) - now_check

age_seconds(dt, now_check) == now_check - replace_tzinfo_none(dt)

\* the staleness test with the boundary excluded
too_old_at_boundary(age) == age >= POST_MAX_AGE_HOURS * HOUR

too_old(age) == age > POST_MAX_AGE_HOURS * HOUR

resolve_permalink(href) ==
    IF startswith(href, <<"/">>) THEN ORIGIN \o href ELSE href

\* everything after the marker taken as the post_id
id_segment_unsplit(post_url, after) ==
    IF Len(after) < 2 THEN post_url ELSE after[2]

\* post_url.split("/comments/")[1].split("/")[0], IndexError: post_url
id_segment(post_url, after) ==
    IF Len(after) < 2 THEN post_url ELSE split_on(after[2], <<"/">>)[1]

derive_post_id(post_url) ==
    IF contains(post_url, COMMENTS_MARKER)
    THEN id_segment(post_url, split_on(post_url, COMMENTS_MARKER))
    ELSE UNKNOWN

\* [raised, value]
post_score(e) ==
    IF e.score = None THEN Returns(0)
    ELSE IF e.dom_error = "score" THEN Raises(PlaywrightError)
    ELSE parse_score_text(strip(Val(e.score)))

Outcome(o, age, rec, raised) ==
    [outcome |-> o, age |-> age, rec |-> rec, raised |-> raised]

\* lines 192-200: the score, then the record is handed to the insert
extract_scored(subreddit, dt, age, post_url, sc) ==
    IF sc.raised # NoError THEN Outcome("error", Some(age), None, sc.raised)
    ELSE Outcome("saved", Some(age),
                 Some([subreddit |-> subreddit,
                       post_id |-> derive_post_id(post_url),
                       post_url |-> post_url,
                       score |-> sc.value,
                       created_at |-> replace_tzinfo_none(dt)]),
                 NoError)

\* lines 166-200: the staleness test and the permalink
extract_aged(e, subreddit, dt, age) ==
    IF too_old(age) THEN Outcome("too_old", Some(age), None, NoError)
    ELSE IF ~e.permalink_el
         THEN Outcome("no_permalink", Some(age), None, NoError)
    ELSE IF e.href = None \/ e.href = Some(<<>>)
         THEN Outcome("empty_permalink", Some(age), None, NoError)
    ELSE extract_scored(subreddit, dt, age, resolve_permalink(Val(e.href)),
                        post_score(e))

\* lines 161-165: no timestamp, or the age of the post
extract_dated(e, subreddit, dtr, now_check) ==
    IF dtr.raised # NoError THEN Outcome("error", None, None, dtr.raised)
    ELSE IF dtr.value = None
         THEN Outcome("no_timestamp", None, None, NoError)
    ELSE extract_aged(e, subreddit, Val(dtr.value),
                      age_seconds(Val(dtr.value), now_check))

extract_post(e, subreddit, now_parse, now_check) ==
    IF e.h3 = None THEN Outcome("no_title", None, None, NoError)
    ELSE IF e.dom_error = "title"
         THEN Outcome("error", None, None, PlaywrightError)
    ELSE IF strip(Val(e.h3)) = <<>>
         THEN Outcome("no_title", None, None, NoError)
    ELSE extract_dated(e, subreddit, post_datetime(e, now_parse), now_check)

(***************************************************************************)
(* Inputs: the configuration, the texts and the post elements a rendered   *)
(* page can hold.  Timestamps of a page are relative to the clock at the   *)
(* time the page is loaded.                                                *)
(***************************************************************************)
ForumNames == <<"GirlsWithGuns", "CountryGirls", "CamoGirls",
                "TacticalGirls", "Outdoors", "Bushcraft">>

Min(a, b) == IF a < b THEN a ELSE b

\* the configured forum lists: prefixes of the list of the source
ForumLists == {SubSeq(ForumNames, 1, n) : n \in 0..Min(MaxForums, Len(ForumNames))}

\* the configured [BATCH_MIN, BATCH_MAX] ranges: the source's and small ones
BatchRanges ==
    {<<BATCH_MIN, BATCH_MAX>>}
        \cup {r \in (1..MaxBatch) \X (1..MaxBatch) : r[1] <= r[2]}

TITLE == <<"T","i","t","l","e">>
HREF_ABC == <<"/","r","/","x","/","c","o","m","m","e","n","t","s","/","a","b","c","/","t","/">>
HREF_OLD == <<"/","r","/","x","/","c","o","m","m","e","n","t","s","/","o","l","d","/","t","/">>
HREF_A == <<"h","t","t","p","s",":","/","/","e",".","i","o","/","a">>
HREF_B == <<"h","t","t","p","s",":","/","/","e",".","i","o","/","b">>
SCORE_2_3K == <<"2",".","3","k">>
SCORE_4_POINTS == <<"4"," ","p","o","i","n","t","s">>
SCORE_INF == <<"i","n","f">>
SCORE_MINUS_5 == <<"-","5">>
AGE_4_HOURS == <<"4"," ","h","o","u","r","s"," ","a","g","o">>
AGE_5_MINUTES == <<"5"," ","m","i","n","u","t","e","s"," ","a","g","o">>
AGE_GIBBERISH == <<"g","i","b","b","e","r","i","s","h">>
AGE_INF_MIN == <<"i","n","f"," ","m","i","n">>
AGE_MINUS_5_MIN == <<"-","5"," ","m","i","n">>

ScoreTexts ==
    {<<>>, <<Bullet>>, SCORE_2_3K, SCORE_4_POINTS, SCORE_INF, SCORE_MINUS_5,
     <<"1",".","2","k">>,
     <<" ","7"," ">>,
     <<"1","2"," ","V","o","t","e","s">>,
     <<"1"," ","p","o","i","n","t">>,
     <<"a","b","c">>,
     <<"n","a","n">>,
     <<"k">>,
     <<"-","1",".","5","k">>,
     <<"-","0",".","5">>,
     <<"1","e","3">>,
     <<"-","i","n","f">>,
     <<".","5","k">>}

Elem(h3, anchor, dt, pel, href, score, err) ==
    [h3 |-> h3, anchor |-> anchor, datetime |-> dt, permalink_el |-> pel,
     href |-> href, score |-> score, dom_error |-> err]

\* Templates: the datetime attribute holds the wall-clock reading relative
\* to the time the page is loaded.  A post that passes every filter,
\* created age seconds before the load and stamped in UTC:
Fresh(age, href, score) ==
    Elem(Some(TITLE), Some(AGE_5_MINUTES), Some(IsoText(0 - age, TZ_Z)),
         TRUE, Some(href), Some(score), "")

E_VALID == Fresh(10 * MINUTE, HREF_ABC, SCORE_2_3K)
\* the same post seen with another score and age
E_AGAIN == Fresh(11 * MINUTE, HREF_ABC, SCORE_4_POINTS)
\* exactly at the staleness window, one second older, 6 hours old
E_BOUNDARY == Fresh(POST_MAX_AGE_HOURS * HOUR, HREF_OLD, SCORE_4_POINTS)
E_OLD == Fresh(6 * HOUR, HREF_OLD, SCORE_4_POINTS)
\* created 10 minutes ago, stamped with a +05:00 offset
E_PLUS5 ==
    Elem(Some(TITLE), Some(AGE_5_MINUTES),
         Some(IsoText(5 * HOUR - 10 * MINUTE, TZ_PLUS5)),
         TRUE, Some(HREF_ABC), Some(SCORE_2_3K), "")
\* created 10 minutes ago, stamped with a -05:00 offset
E_MINUS5 ==
    Elem(Some(TITLE), Some(AGE_5_MINUTES),
         Some(IsoText(0 - 5 * HOUR - 10 * MINUTE, TZ_MINUS5)),
         TRUE, Some(HREF_ABC), Some(SCORE_2_3K), "")
\* no h3
E_NO_TITLE ==
    Elem(None, Some(AGE_5_MINUTES), None, TRUE, Some(HREF_ABC), None, "")
\* no time element: relative age text; permalinks without the marker
E_TEXT_A ==
    Elem(Some(TITLE), Some(AGE_4_HOURS), None, TRUE, Some(HREF_A), None, "")
E_TEXT_B ==
    Elem(Some(TITLE), Some(AGE_5_MINUTES), Some(Garbage), TRUE,
         Some(HREF_B), Some(SCORE_MINUS_5), "")
\* no timestamp anchor, no permalink element, empty href
E_NO_ANCHOR ==
    Elem(Some(TITLE), None, None, TRUE, Some(HREF_ABC), None, "")
E_NO_PERMALINK ==
    Elem(Some(TITLE), Some(JUST_NOW), None, FALSE, None, None, "")
E_EMPTY_HREF ==
    Elem(Some(TITLE), Some(JUST_NOW), None, TRUE, Some(<<>>), None, "")
\* a DOM read of the title raises; the score text is not finite
E_DOM_ERROR ==
    Elem(Some(TITLE), Some(JUST_NOW), None, TRUE, Some(HREF_ABC), None, "title")
E_SCORE_INF == Fresh(10 * MINUTE, HREF_ABC, SCORE_INF)

\* neither source gives a time; the age text has a non-finite magnitude;
\* the age text has a negative magnitude
E_BOTH_FAIL ==
    Elem(Some(TITLE), Some(AGE_GIBBERISH), Some(Garbage), TRUE,
         Some(HREF_A), None, "")
E_AGE_INF ==
    Elem(Some(TITLE), Some(AGE_INF_MIN), None, TRUE, Some(HREF_A), None, "")
E_AGE_FUTURE ==
    Elem(Some(TITLE), Some(AGE_MINUS_5_MIN), None, TRUE, Some(HREF_B), None, "")

\* what the site renders, one set of templates per scenario
DOM_BASIC == {E_VALID, E_DOM_ERROR}
DOM_DEDUP == {E_VALID, E_AGAIN, E_NO_TITLE}
DOM_STALE == {E_BOUNDARY, E_OLD, E_TEXT_A}
DOM_IDS == {E_TEXT_A, E_TEXT_B, E_SCORE_INF}
DOM_TZ == {E_PLUS5, E_MINUS5, E_NO_ANCHOR}
DOM_SKIP == {E_NO_PERMALINK, E_EMPTY_HREF, E_VALID}
DOM_AGE == {E_BOTH_FAIL, E_AGE_INF, E_AGE_FUTURE}
\* a page of three posts: no title, 6 hours old, valid with "2.3k" at 10 minutes
DOM_EXAMPLE == {E_NO_TITLE, E_OLD, E_VALID}
EXAMPLE_PAGE == <<E_NO_TITLE, E_OLD, E_VALID>>

\* the scenarios: <<forum list, batch range, templates>>
TwoForums == SubSeq(ForumNames, 1, 2)

Scenarios ==
    (ForumLists \X BatchRanges \X {DOM_BASIC})
        \cup ({TwoForums} \X {<<BATCH_MIN, BATCH_MAX>>}
                \X {DOM_DEDUP, DOM_STALE, DOM_IDS, DOM_TZ, DOM_SKIP,
                    DOM_EXAMPLE, DOM_AGE})

\* the template rendered at time now
Instantiate(t, now) ==
    IF t.datetime = None THEN t
    ELSE [t EXCEPT !.datetime =
            Some([Val(t.datetime) EXCEPT !.wall = now + Val(t.datetime).wall])]

\* the post elements query_selector_all can return at time now: up to
\* MaxPosts elements of the templates, and the example page of its scenario
Pages(templates, now) ==
    UNION {[1..n -> {Instantiate(t, now) : t \in templates}] : n \in 1..MaxPosts}
        \cup {[k \in 1..Len(p) |-> Instantiate(p[k], now)] :
                p \in {q \in {EXAMPLE_PAGE} : templates = DOM_EXAMPLE}}

(***************************************************************************)
(* State of run_scraper.                                                   *)
(***************************************************************************)
VARIABLES
    SUBREDDITS,     \* the configured forum list
    batch,          \* the configured <<BATCH_MIN, BATCH_MAX>>
    dom,            \* the post element templates the site renders
    pc,             \* the position of run_scraper
    error,          \* the exception that ended run_scraper, NoError if none
    selected,       \* the list get_subreddits_for_this_loop returned
    subreddits,     \* that list after random.shuffle
    idx,            \* position of the for loop over subreddits
    browser,        \* whether a browser session (browser, context, page) is open
    sessions,       \* browser sessions opened since the last selection
    page,           \* the post elements of the forum page being scraped
    pi,             \* position of the for loop over posts
    valid_count,    \* valid_count of scrape_subreddit
    last,           \* what the last loop iteration over a post did
    result,         \* how the scrape of the current forum ended
    visited,        \* forums scraped since the last selection, in order
    cooled,         \* cooldown sleeps since the last selection
    store,          \* the rows of reddit_posts
    clock,          \* the UTC clock, in seconds
    text,           \* the argument of a field parser called on its own
    parsed          \* Some(what that call did), None before the call

vars == <<SUBREDDITS, batch, dom, pc, error, selected, subreddits, idx, browser,
          sessions, page, pi, valid_count, last, result, visited, cooled,
          store, clock, text, parsed>>

parser == <<text, parsed>>
config == <<SUBREDDITS, batch, dom>>
run == <<selected, subreddits, idx, visited, cooled>>
scrape == <<page, pi, valid_count, last>>

NoOutcome == Outcome("", None, None, NoError)

Init ==
    /\ \E sc \in Scenarios :
          /\ SUBREDDITS = sc[1]
          /\ batch = sc[2]
          /\ dom = sc[3]
    /\ pc = "connect_db"
    /\ error = NoError
    /\ selected = <<>>
    /\ subreddits = <<>>
    /\ idx = 1
    /\ browser = FALSE
    /\ sessions = 0
    /\ page = <<>>
    /\ pi = 1
    /\ valid_count = 0
    /\ last = NoOutcome
    /\ result = ""
    /\ visited = <<>>
    /\ cooled = 0
    /\ store = {}
    /\ clock = 0
    /\ text = <<>>
    /\ parsed = None

(***************************************************************************)
(* get_subreddits_for_this_loop and random.shuffle: the values they can    *)
(* return.                                                                 *)
(***************************************************************************)
Injections(k, n) ==
    {f \in [1..k -> 1..n] : \A i, j \in 1..k : i # j => f[i] # f[j]}

\* k entries drawn with replacement, as random.choices does
sample_with_replacement(population, k) ==
    {[i \in 1..k |-> population[f[i]]] : f \in [1..k -> 1..Len(population)]}

\* random.sample(population, k): k entries at distinct positions
sample(population, k) ==
    {[i \in 1..k |-> population[f[i]]] : f \in Injections(k, Len(population))}

\* random.shuffle(x): the reorderings of x
shuffle(x) ==
    {[i \in 1..Len(x) |-> x[f[i]]] : f \in Injections(Len(x), Len(x))}

\* min(len(SUBREDDITS), random.randint(BATCH_MIN, BATCH_MAX))
batch_sizes == {Min(Len(SUBREDDITS), n) : n \in batch[1]..batch[2]}

get_subreddits_for_this_loop ==
    IF SUBREDDITS = <<>> THEN {<<>>}
    ELSE UNION {sample(SUBREDDITS, k) : k \in batch_sizes}

(***************************************************************************)
(* Where an exception goes.                                                *)
(***************************************************************************)
\* "except Exception" of scrape_subreddit: the handler takes the screenshot
scrape_subreddit_except == "screenshot"

\* run_scraper without its "except Exception": the exception ends the loop
run_scraper_except_missing == "terminated"

\* "except Exception" of run_scraper around scrape_subreddit: log, go on
run_scraper_except == "cooldown"

\* an exception outside any try of run_scraper ends the coroutine
run_scraper_uncaught == "terminated"

(***************************************************************************)
(* The steps of run_scraper.                                               *)
(***************************************************************************)
\* a failed connect swallowed: the loop is entered without a connection
ConnectDb_swallowed ==
    /\ pc = "connect_db"
    /\ \/ /\ pc' = "selecting"
          /\ error' = NoError
       \/ /\ pc' = "selecting"
          /\ error' = "connect_db"
    /\ UNCHANGED <<parser, config, run, scrape, browser, sessions, result, store, clock>>

\* conn = await connect_db()
ConnectDb ==
    /\ pc = "connect_db"
    /\ \/ /\ pc' = "selecting"
          /\ error' = NoError
       \/ /\ pc' = run_scraper_uncaught
          /\ error' = "connect_db"
    /\ UNCHANGED <<parser, config, run, scrape, browser, sessions, result, store, clock>>

\* subreddits = await get_subreddits_for_this_loop(); shuffle, or back off
Select ==
    /\ pc = "selecting"
    /\ \E sel \in get_subreddits_for_this_loop :
          /\ selected' = sel
          /\ IF sel = <<>>
             THEN subreddits' = sel /\ pc' = "backoff"
             ELSE subreddits' \in shuffle(sel) /\ pc' = "launch"
    /\ idx' = 1
    /\ visited' = <<>>
    /\ cooled' = 0
    /\ sessions' = 0
    /\ UNCHANGED <<parser, config, error, scrape, browser, result, store, clock>>

\* the backoff sleep followed by the inter-run idle sleep
Backoff_then_idle ==
    /\ pc = "backoff"
    /\ \E backoff \in {BACKOFF_MIN_SEC, BACKOFF_MAX_SEC} :
          /\ clock + backoff <= MaxClock
          /\ clock' = clock + backoff
    /\ pc' = "idle"
    /\ UNCHANGED <<parser, config, error, run, scrape, browser, sessions, result, store>>

\* await asyncio.sleep(random.randint(120, 240)); continue
Backoff ==
    /\ pc = "backoff"
    /\ \E backoff \in {BACKOFF_MIN_SEC, BACKOFF_MAX_SEC} :
          /\ clock + backoff <= MaxClock
          /\ clock' = clock + backoff
    /\ pc' = "selecting"
    /\ UNCHANGED <<parser, config, error, run, scrape, browser, sessions, result, store>>

\* async with async_playwright(): launch, new_context, new_page
OpenBrowser ==
    /\ pc = "launch"
    /\ \/ /\ browser' = TRUE
          /\ sessions' = sessions + 1
          /\ pc' = "scrape"
          /\ error' = NoError
       \/ /\ browser' = FALSE
          /\ sessions' = sessions
          /\ pc' = run_scraper_uncaught
          /\ error' = "launch"
    /\ UNCHANGED <<parser, config, run, scrape, result, store, clock>>

\* scrape_subreddit up to query_selector_all: goto, wait_for_selector, scroll
Goto ==
    /\ pc = "scrape"
    /\ visited' = Append(visited, subreddits[idx])
    /\ \/ /\ page' \in Pages(dom, clock)
          /\ pc' = "posts"
          /\ result' = ""
       \/ /\ page' = <<>>
          /\ pc' = scrape_subreddit_except
          /\ result' = "TimeoutError"
    /\ pi' = 1
    /\ valid_count' = 0
    /\ last' = NoOutcome
    /\ UNCHANGED <<parser, config, error, selected, subreddits, idx, cooled, browser,
                   sessions, store, clock>>

\* what one iteration does with the outcome o of its post
ExtractStep(o, db_ok) ==
    IF o.outcome = "error"
    THEN /\ last' = o
         /\ pc' = scrape_subreddit_except
         /\ result' = o.raised
         /\ UNCHANGED <<store, valid_count, pi>>
    ELSE IF o.outcome = "saved" /\ ~db_ok
    THEN /\ last' = [o EXCEPT !.raised = PostgresError]
         /\ pc' = scrape_subreddit_except
         /\ result' = PostgresError
         /\ UNCHANGED <<store, valid_count, pi>>
    ELSE IF o.outcome = "saved"
    THEN /\ last' = o
         /\ store' = insert_reddit_post(store, Val(o.rec).subreddit,
                        Val(o.rec).post_id, Val(o.rec).post_url,
                        Val(o.rec).score, Val(o.rec).created_at, clock)
         /\ valid_count' = valid_count + 1
         /\ pi' = pi + 1
         /\ UNCHANGED <<pc, result>>
    ELSE /\ last' = o
         /\ pi' = pi + 1
         /\ UNCHANGED <<pc, result, store, valid_count>>

\* one iteration of "for post in posts", the insert included
ExtractPost ==
    /\ pc = "posts"
    /\ pi <= Len(page)
    /\ \E db_ok \in BOOLEAN :
          ExtractStep(extract_post(page[pi], subreddits[idx], clock, clock),
                      db_ok)
    /\ UNCHANGED <<parser, config, error, run, page, browser, sessions, clock>>

\* the loop over posts is exhausted: scrape_subreddit returns
FinishPosts ==
    /\ pc = "posts"
    /\ pi > Len(page)
    /\ pc' = "cooldown"
    /\ result' = "returned"
    /\ UNCHANGED <<parser, config, error, run, scrape, browser, sessions, store, clock>>

\* the except block of scrape_subreddit: await page.screenshot(...)
Screenshot ==
    /\ pc = "screenshot"
    /\ \/ /\ pc' = "cooldown"
          /\ result' = "handled"
       \/ /\ pc' = run_scraper_except
          /\ result' = "escaped"
    /\ UNCHANGED <<parser, config, error, run, scrape, browser, sessions, store, clock>>

\* the loop leaving one forum early
after_cooldown_early(i, n) == IF i + 1 < n THEN "scrape" ELSE "close"

\* "for subreddit in subreddits": the next forum, or leave the loop
after_cooldown(i, n) == IF i < n THEN "scrape" ELSE "close"

\* await asyncio.sleep(random.randint(13, 31)), then the next forum
Cooldown ==
    /\ pc = "cooldown"
    /\ \E wait_s \in {SUBREDDIT_COOLDOWN_MIN_SEC, SUBREDDIT_COOLDOWN_MAX_SEC} :
          /\ clock + wait_s <= MaxClock
          /\ clock' = clock + wait_s
    /\ cooled' = cooled + 1
    /\ idx' = idx + 1
    /\ pc' = after_cooldown(idx, Len(subreddits))
    /\ page' = <<>>
    /\ pi' = 1
    /\ valid_count' = 0
    /\ last' = NoOutcome
    /\ result' = ""
    /\ UNCHANGED <<parser, config, error, selected, subreddits, visited, browser,
                   sessions, store>>

\* the end of the loop reached with the session left open
CloseBrowser_left_open ==
    /\ pc = "close"
    /\ browser' = browser
    /\ \/ /\ pc' = "idle"
          /\ error' = NoError
       \/ /\ pc' = run_scraper_uncaught
          /\ error' = "close"
    /\ UNCHANGED <<parser, config, run, scrape, sessions, result, store, clock>>

\* await context.close(); await browser.close(); leave the async with
CloseBrowser ==
    /\ pc = "close"
    /\ browser' = FALSE
    /\ \/ /\ pc' = "idle"
          /\ error' = NoError
       \/ /\ pc' = run_scraper_uncaught
          /\ error' = "close"
    /\ UNCHANGED <<parser, config, run, scrape, sessions, result, store, clock>>

\* await asyncio.sleep(random.randint(LOOP_DELAY_MIN_SEC, LOOP_DELAY_MAX_SEC))
Idle ==
    /\ pc = "idle"
    /\ \E loop_wait \in {LOOP_DELAY_MIN_SEC, LOOP_DELAY_MAX_SEC} :
          /\ clock + loop_wait <= MaxClock
          /\ clock' = clock + loop_wait
    /\ pc' = "selecting"
    /\ UNCHANGED <<parser, config, error, run, scrape, browser, sessions, result, store>>

Next ==
    \/ ConnectDb
    \/ Select
    \/ Backoff
    \/ OpenBrowser
    \/ Goto
    \/ ExtractPost
    \/ FinishPosts
    \/ Screenshot
    \/ Cooldown
    \/ CloseBrowser
    \/ Idle

Spec == Init /\ [][Next]_vars

(***************************************************************************)
(* parse_score_text called on its own, on every text of ScoreInputs.       *)
(***************************************************************************)
ScoreChars == {"1", "5", "-", ".", "k", " "}

ScoreInputs ==
    ScoreTexts \cup UNION {[1..n -> ScoreChars] : n \in 0..MaxTextLen}

InitScore ==
    /\ text \in ScoreInputs
    /\ parsed = None
    /\ pc = "parse_score_text"
    /\ SUBREDDITS = <<>>
    /\ batch = <<BATCH_MIN, BATCH_MAX>>
    /\ dom = {}
    /\ error = NoError
    /\ selected = <<>>
    /\ subreddits = <<>>
    /\ idx = 1
    /\ browser = FALSE
    /\ sessions = 0
    /\ page = <<>>
    /\ pi = 1
    /\ valid_count = 0
    /\ last = NoOutcome
    /\ result = ""
    /\ visited = <<>>
    /\ cooled = 0
    /\ store = {}
    /\ clock = 0

ParseScore ==
    /\ pc = "parse_score_text"
    /\ parsed = None
    /\ parsed' = Some(parse_score_text(text))
    /\ UNCHANGED <<text, config, pc, error, run, scrape, browser, sessions,
                   result, store, clock>>

NextScore == ParseScore

SpecScore == InitScore /\ [][NextScore]_vars

(***************************************************************************)
(* parse_age_text alone, on the texts below and at the clock readings      *)
(* AgeNows: a magnitude, a blank and a unit, with or without " ago"; fixed *)
(* texts; and every text of up to MaxTextLen characters of AgeChars.       *)
(***************************************************************************)
AgeMagnitudes ==
    {<<"a">>, <<"a","n">>, <<"1">>, <<"5">>, <<"1","0">>, <<"1",".","5">>,
     <<"0",".","5">>, <<".","5">>, <<"+","3">>, <<"0">>, <<"-","5">>,
     <<"-","0",".","5">>, <<"i","n","f">>, <<"-","i","n","f">>,
     <<"n","a","n">>, <<"i","n","f","i","n","i","t","y">>, <<"a","b","c">>,
     <<"f","i","v","e">>, <<"1","h">>, <<"5","m">>}

AgeUnits ==
    {<<>>, <<"m","i","n">>, <<"m","i","n","s">>,
     <<"m","i","n","u","t","e">>, <<"m","i","n","u","t","e","s">>,
     <<"h","o","u","r">>, <<"h","o","u","r","s">>, <<"h">>, <<"s","e","c">>,
     <<"s","e","c","s">>, <<"s","e","c","o","n","d","s">>, <<"s">>,
     <<"d","a","y","s">>, <<"d","a","y">>, <<"h","r">>, <<"h","r","s">>,
     <<"m">>, <<"w","e","e","k","s">>, <<"a","g","o">>,
     <<"m","o","n","t","h">>}

AgeSuffixes == {<<>>, <<" ","a","g","o">>}

AgeText(m, u, s) ==
    IF u = <<>> THEN m \o s ELSE m \o <<" ">> \o u \o s

AGE_1E9_HOURS == <<"1","e","9"," ","h","o","u","r","s">>
AGE_1E_7_SECONDS == <<"1","e","-","7"," ","s","e","c","o","n","d","s">>
AGE_5_MIN_PLAIN == <<"5"," ","m","i","n","u","t","e","s">>

AgeWholeTexts ==
    {<<>>, JUST_NOW, MOMENTS_AGO, AGE_4_HOURS, AGE_5_MINUTES, AGE_1E9_HOURS,
     AGE_1E_7_SECONDS, AGE_GIBBERISH, AGE_INF_MIN, AGE_MINUS_5_MIN,
     AGE_5_MIN_PLAIN,
     <<"J","u","s","t"," ","N","o","w">>,
     <<" "," ","m","o","m","e","n","t","s"," ","a","g","o"," ">>,
     <<"5"," "," ","M","i","n","u","t","e","s">>,
     <<"A","n"," ","H","o","u","r">>,
     <<"1","e","3"," ","s","e","c">>,
     <<"j","u","s","t"," "," ","n","o","w">>,
     <<"5","m","i","n","u","t","e","s">>,
     <<"a","g","o">>,
     <<"5"," ","m","i","n"," ","3"," ","s","e","c">>}

AgeChars == {"a", "n", "1", "h", "s", " "}

AgeInputs ==
    {AgeText(m, u, s) : m \in AgeMagnitudes, u \in AgeUnits, s \in AgeSuffixes}
        \cup AgeWholeTexts
        \cup UNION {[1..n -> AgeChars] : n \in 0..MaxTextLen}

\* utcnow() at the call: process start and a later reading
AgeNows == {0, MaxClock}

InitAge ==
    /\ text \in AgeInputs
    /\ clock \in AgeNows
    /\ parsed = None
    /\ pc = "parse_age_text"
    /\ SUBREDDITS = <<>>
    /\ batch = <<BATCH_MIN, BATCH_MAX>>
    /\ dom = {}
    /\ error = NoError
    /\ selected = <<>>
    /\ subreddits = <<>>
    /\ idx = 1
    /\ browser = FALSE
    /\ sessions = 0
    /\ page = <<>>
    /\ pi = 1
    /\ valid_count = 0
    /\ last = NoOutcome
    /\ result = ""
    /\ visited = <<>>
    /\ cooled = 0
    /\ store = {}

ParseAge ==
    /\ pc = "parse_age_text"
    /\ parsed = None
    /\ parsed' = Some(parse_age_text(text, clock))
    /\ UNCHANGED <<text, config, pc, error, run, scrape, browser, sessions,
                   result, store, clock>>

NextAge == ParseAge

SpecAge == InitAge /\ [][NextAge]_vars

(***************************************************************************)
(* Lines 180-190 alone: the permalink resolved and the post_id derived,    *)
(* for every non-empty href put together from the parts below.             *)
(***************************************************************************)
HrefHeads ==
    {<<>>, <<"/">>, <<"/","r","/","x">>,
     <<"h","t","t","p","s",":","/","/","w","w","w",".","r","e","d","d","i","t",".","c","o","m","/","r","/","x">>,
     <<"h","t","t","p","s",":","/","/","e",".","i","o">>, <<"x">>,
     <<"/","/","e",".","i","o">>}

HrefMarkers ==
    {<<>>, <<"/","c","o","m","m","e","n","t","s","/">>,
     <<"/","c","o","m","m","e","n","t","s">>,
     <<"c","o","m","m","e","n","t","s","/">>,
     <<"/","C","o","m","m","e","n","t","s","/">>}

HrefIds ==
    {<<>>, <<"a","b","c","1","2","3">>, <<"a","b","c">>, <<"a","-","b">>}

HrefTails ==
    {<<>>, <<"/">>, <<"/","t","i","t","l","e","/">>,
     <<"/","c","o","m","m","e","n","t","s","/","b">>}

HREF_EXAMPLE == <<"/","r","/","x","/","c","o","m","m","e","n","t","s","/","a","b","c","1","2","3","/","t","i","t","l","e","/">>

HrefInputs ==
    {h \o m \o i \o t : h \in HrefHeads, m \in HrefMarkers,
                        i \in HrefIds, t \in HrefTails}
        \ {<<>>}

InitLink ==
    /\ text \in HrefInputs
    /\ parsed = None
    /\ pc = "resolve_permalink"
    /\ clock = 0
    /\ SUBREDDITS = <<>>
    /\ batch = <<BATCH_MIN, BATCH_MAX>>
    /\ dom = {}
    /\ error = NoError
    /\ selected = <<>>
    /\ subreddits = <<>>
    /\ idx = 1
    /\ browser = FALSE
    /\ sessions = 0
    /\ page = <<>>
    /\ pi = 1
    /\ valid_count = 0
    /\ last = NoOutcome
    /\ result = ""
    /\ visited = <<>>
    /\ cooled = 0
    /\ store = {}

Link(post_url) == [post_url |-> post_url, post_id |-> derive_post_id(post_url)]

ResolveLink ==
    /\ pc = "resolve_permalink"
    /\ parsed = None
    /\ parsed' = Some(Link(resolve_permalink(text)))
    /\ UNCHANGED <<text, config, pc, error, run, scrape, browser, sessions,
                   result, store, clock>>

NextLink == ResolveLink

SpecLink == InitLink /\ [][NextLink]_vars

(***************************************************************************)
(* Properties.                                                             *)
(***************************************************************************)
InForum == pc \in {"scrape", "posts", "screenshot"}

\* C1: an exception raised while one forum is scraped (navigation or wait
\* timeout, extraction or insert error, a failing screenshot) never ends
\* the run: every step taken while a forum is being scraped stays with that
\* forum or reaches its cooldown, and the cooldown moves on to the next
\* forum of the selection (or to the end of the loop after the last one).
C1_ForumFailureNeverHalts ==
    [][/\ InForum =>
            /\ pc' \in {"posts", "screenshot", "cooldown"}
            /\ idx' = idx
            /\ error' = NoError
       /\ (InForum /\ result' \in {"handled", "escaped"}) => pc' = "cooldown"
       /\ pc = "cooldown" =>
            /\ idx' = idx + 1
            /\ cooled' = cooled + 1
            /\ pc' = IF idx < Len(subreddits) THEN "scrape" ELSE "close"]_vars

\* the screenshot itself failed, the cooldown of that forum is reached and
\* another forum is still to come
C1_Witness ==
    /\ pc = "cooldown"
    /\ result = "escaped"
    /\ idx < Len(subreddits)

\* the post element at position k of the page passes every filter
Passes(k) ==
    extract_post(page[k], subreddits[idx], clock, clock).outcome = "saved"

\* the post_id of the post element at position k
IdOf(k) ==
    Val(extract_post(page[k], subreddits[idx], clock, clock).rec).post_id

\* C2: an error raised while one post element is extracted skips only that
\* post: every later post element of the page that passes the filters is
\* persisted.
C2_PostErrorSkipsOnlyThatPost ==
    (pc = "screenshot" /\ last.outcome = "error") =>
        \A k \in (pi + 1)..Len(page) :
            Passes(k) => on_conflict(store, IdOf(k))

Unique(rows) == \A r1, r2 \in rows : r1.post_id = r2.post_id => r1 = r2

Inserted == last'.outcome = "saved" /\ last'.raised = NoError /\ pi' = pi + 1

\* C3: the store holds one row per post_id; a row is added only by an
\* insert whose post_id is not present yet, with the arguments of that
\* insert, seen_at of that moment and commented = FALSE; rows never change
\* or disappear, and an insert with a post_id already present changes
\* nothing.
C3_InsertIdempotent ==
    /\ []Unique(store)
    /\ [][/\ store \subseteq store'
          /\ \A r \in store' \ store :
                /\ Inserted
                /\ ~on_conflict(store, r.post_id)
                /\ r = Row(Val(last'.rec).subreddit, Val(last'.rec).post_id,
                           Val(last'.rec).post_url, Val(last'.rec).score,
                           Val(last'.rec).created_at, clock)
                /\ r.commented = FALSE
          /\ (Inserted /\ on_conflict(store, Val(last'.rec).post_id))
                => store' = store
          /\ (Inserted /\ ~on_conflict(store, Val(last'.rec).post_id))
                => Cardinality(store') = Cardinality(store) + 1]_vars

\* an insert was made for a post_id whose row holds other values
C3_Witness ==
    /\ last.outcome = "saved"
    /\ last.raised = NoError
    /\ \E r \in store :
          /\ r.post_id = Val(last.rec).post_id
          /\ r.score # Val(last.rec).score
          /\ r.subreddit # Val(last.rec).subreddit
          /\ r.created_at # Val(last.rec).created_at
          /\ r.seen_at # clock

Window == POST_MAX_AGE_HOURS * HOUR

\* C4: a record handed to the insert has an age (the clock minus its naive
\* created_at) of at most POST_MAX_AGE_HOURS at the staleness check, a post
\* is rejected as too old only when its age is strictly greater than the
\* window (the boundary is kept), and no row older than the window at
\* the time it was seen is in the store.
C4_StalenessWindow ==
    /\ last.rec # None =>
          /\ clock - Val(last.rec).created_at <= Window
          /\ Val(last.age) = clock - Val(last.rec).created_at
    /\ last.outcome = "too_old" => Val(last.age) > Window
    /\ \A r \in store : r.seen_at - r.created_at <= Window

\* a post whose age is exactly the window was handed to the insert
C4_Witness ==
    /\ last.rec # None
    /\ last.raised = NoError
    /\ clock - Val(last.rec).created_at = Window
    /\ \E r \in store : r.seen_at - r.created_at = Window

\* C5: once the database connection is established run_scraper has no
\* terminal state: it is never ended by an error.
C5_NoTerminalState ==
    pc = "terminated" => error = "connect_db"

IsPrefix(a, b) == Len(a) <= Len(b) /\ a = SubSeq(b, 1, Len(a))

NoDuplicates(x) == \A i, j \in 1..Len(x) : i # j => x[i] # x[j]

\* C6: the forums of a run are visited in the shuffled order, each once,
\* one at a time; every visit is followed by a cooldown before the next
\* visit or the end of the loop; the idle sleep is reached only after all
\* selected forums were visited and cooled; the phases follow one another
\* in the order SELECTING, (SCRAPING, COOLING)*, IDLE, SELECTING.
C6_RunOrder ==
    /\ [](/\ IsPrefix(visited, subreddits)
          /\ NoDuplicates(visited)
          /\ pc = "scrape" => (cooled = Len(visited) /\ idx = cooled + 1)
          /\ pc \in {"posts", "screenshot", "cooldown"} =>
                (Len(visited) = cooled + 1 /\ idx = Len(visited))
          /\ pc \in {"close", "idle"} =>
                (visited = subreddits /\ cooled = Len(subreddits)
                    /\ subreddits # <<>>))
    /\ [][/\ pc = "selecting" => pc' \in {"launch", "backoff"}
          /\ pc = "launch" => pc' \in {"scrape", "terminated"}
          /\ InForum => pc' \in {"posts", "screenshot", "cooldown"}
          /\ pc = "cooldown" => pc' \in {"scrape", "close"}
          /\ pc = "close" => pc' \in {"idle", "terminated"}
          /\ pc = "idle" => pc' = "selecting"
          /\ pc' = "idle" => pc = "close"
          /\ pc' = "scrape" => pc \in {"launch", "cooldown"}
          /\ visited' # visited =>
                (pc = "scrape" /\ visited' = Append(visited, subreddits[idx]))
                    \/ (pc = "selecting" /\ visited' = <<>>)]_vars

\* a run over two forums has reached the idle sleep
C6_Witness ==
    /\ pc = "idle"
    /\ Len(subreddits) = 2
    /\ visited = subreddits
    /\ cooled = 2

ClampedMin == Min(batch[1], Len(SUBREDDITS))
ClampedMax == Min(batch[2], Len(SUBREDDITS))

AfterSelection ==
    pc \in {"launch", "scrape", "posts", "screenshot", "cooldown", "close",
            "idle"}

\* C7: the subset get_subreddits_for_this_loop returned has a size within
\* [BATCH_MIN, BATCH_MAX] clamped to the length of the forum list, holds
\* only forums of the list and none twice; the shuffled list has the same
\* members, each once.
C7_SelectionWellFormed ==
    AfterSelection =>
        /\ ClampedMin <= Len(selected) /\ Len(selected) <= ClampedMax
        /\ \A i \in 1..Len(selected) :
              \E j \in 1..Len(SUBREDDITS) : selected[i] = SUBREDDITS[j]
        /\ NoDuplicates(selected)
        /\ Len(subreddits) = Len(selected)
        /\ {subreddits[i] : i \in 1..Len(subreddits)}
              = {selected[i] : i \in 1..Len(selected)}
        /\ NoDuplicates(subreddits)

\* a subset smaller than the list was chosen, and one that the shuffle
\* reordered
C7_Witness ==
    /\ pc = "launch"
    /\ Len(SUBREDDITS) = 2
    /\ \/ Len(selected) = 1
       \/ subreddits # selected

\* C8: a record whose post URL lacks the comments marker has the full post
\* URL as its post_id.
C8_MarkerlessIdIsUrl ==
    (/\ last.rec # None
     /\ last.raised = NoError
     /\ ~contains(Val(last.rec).post_url, COMMENTS_MARKER))
        => Val(last.rec).post_id = Val(last.rec).post_url

Examined == page[pi - 1]

\* C9: the created_at persisted for a post whose datetime attribute carries
\* a UTC offset is the instant converted to UTC.
C9_CreatedAtIsUtc ==
    (/\ pc = "posts"
     /\ pi > 1
     /\ last.rec # None
     /\ last.raised = NoError
     /\ attribute_datetime(Examined) # None)
        => Val(last.rec).created_at
              = utc_instant(Val(attribute_datetime(Examined)))

\* C10: parse_score_text returns an integer >= 0 for every text and never
\* raises.
C10_ScoreNonNegativeNeverRaises ==
    parsed # None =>
        /\ Val(parsed).raised = NoError
        /\ Val(parsed).value >= 0


(***************************************************************************)
(* C11.  parse_score_text strips the unit words point(s)/vote(s),          *)
(* multiplies by 1000 when what remains ends in "k", reads the rest as a   *)
(* decimal and truncates: "" gives 0, "1.2k" gives 1200, "4 points" gives  *)
(* 4, and every plain decimal numeral (digits, optionally a point and more *)
(* digits), with or without the trailing "k", gives the truncated product. *)
(***************************************************************************)
\* the text without surrounding blanks and without a trailing "k"
Numeral(t) ==
    IF endswith(strip(t), <<"k">>)
    THEN SubSeq(strip(t), 1, Len(strip(t)) - 1)
    ELSE strip(t)

Scale(t) == IF endswith(strip(t), <<"k">>) THEN 1000 ELSE 1

\* digits, optionally a point and more digits; ni is the integer part's length
IsDecimal(d, ni) ==
    /\ \E i \in 1..Len(d) : d[i] \in Digits
    /\ \/ ni = Len(d)
       \/ /\ d[ni + 1] = "."
          /\ \A i \in (ni + 2)..Len(d) : d[i] \in Digits

\* the decimal d times scale, truncated
Truncated(d, ni, scale) ==
    IF ni = Len(d) THEN digits_val(d) * scale
    ELSE (digits_val(SubSeq(d, 1, ni) \o SubSeq(d, ni + 2, Len(d))) * scale)
            \div pow10(Len(d) - ni - 1)

C11_ScoreAlgorithm ==
    (pc = "parse_score_text" /\ parsed # None) =>
        /\ text = <<>> => Val(parsed) = Returns(0)
        /\ text = <<"1",".","2","k">> => Val(parsed) = Returns(1200)
        /\ text = SCORE_4_POINTS => Val(parsed) = Returns(4)
        /\ text = <<"1","2"," ","V","o","t","e","s">> => Val(parsed) = Returns(12)
        /\ text = <<"1"," ","p","o","i","n","t">> => Val(parsed) = Returns(1)
        /\ text = SCORE_2_3K => Val(parsed) = Returns(2300)
        /\ IsDecimal(Numeral(text), digits_len(Numeral(text)))
            => Val(parsed) = Returns(Truncated(Numeral(text),
                                               digits_len(Numeral(text)),
                                               Scale(text)))

\* "1.2k" has been parsed to 1200
C11_Witness ==
    /\ pc = "parse_score_text"
    /\ text = <<"1",".","2","k">>
    /\ parsed = Some(Returns(1200))

(***************************************************************************)
(* C12.  For every well-formed relative-age text with a positive magnitude *)
(* and a recognized unit (minutes, hours, seconds; "a"/"an" meaning 1),    *)
(* parse_age_text returns the reference time minus the stated duration,    *)
(* strictly earlier than the reference time; "just now" returns the        *)
(* reference time itself and "5 minutes" the reference time minus 5        *)
(* minutes.  The magnitudes are listed with their values num/den, the      *)
(* units with their length in seconds.                                     *)
(***************************************************************************)
PositiveMagnitudes ==
    {[text |-> <<"a">>, num |-> 1, den |-> 1],
     [text |-> <<"a","n">>, num |-> 1, den |-> 1],
     [text |-> <<"1">>, num |-> 1, den |-> 1],
     [text |-> <<"5">>, num |-> 5, den |-> 1],
     [text |-> <<"1","0">>, num |-> 10, den |-> 1],
     [text |-> <<"1",".","5">>, num |-> 3, den |-> 2],
     [text |-> <<"0",".","5">>, num |-> 1, den |-> 2],
     [text |-> <<".","5">>, num |-> 1, den |-> 2],
     [text |-> <<"+","3">>, num |-> 3, den |-> 1]}

RecognizedUnits ==
    {[text |-> <<"m","i","n">>, seconds |-> 60],
     [text |-> <<"m","i","n","s">>, seconds |-> 60],
     [text |-> <<"m","i","n","u","t","e">>, seconds |-> 60],
     [text |-> <<"m","i","n","u","t","e","s">>, seconds |-> 60],
     [text |-> <<"h","o","u","r">>, seconds |-> 3600],
     [text |-> <<"h","o","u","r","s">>, seconds |-> 3600],
     [text |-> <<"h">>, seconds |-> 3600],
     [text |-> <<"s","e","c">>, seconds |-> 1],
     [text |-> <<"s","e","c","s">>, seconds |-> 1],
     [text |-> <<"s","e","c","o","n","d","s">>, seconds |-> 1],
     [text |-> <<"s">>, seconds |-> 1]}

StrictlyEarlier(ts, now) == ts.sec < now

\* ts is now minus n/den seconds
MinusDuration(ts, now, n, den) ==
    IF n % den = 0 THEN ts = Stamp(now - n \div den, 0)
    ELSE /\ ts.sec = now - (n \div den) - 1
         /\ (MICRO - ts.micro) * den = (n % den) * MICRO

AgeAsStated(r, now, n, den) ==
    /\ r.raised = NoError
    /\ r.value # None
    /\ StrictlyEarlier(Val(r.value), now)
    /\ MinusDuration(Val(r.value), now, n, den)

C12_AgeIsReferenceMinusDuration ==
    (pc = "parse_age_text" /\ parsed # None) =>
        /\ text = JUST_NOW => Val(parsed) = Returns(Some(Stamp(clock, 0)))
        /\ text = AGE_5_MIN_PLAIN
            => Val(parsed) = Returns(Some(Stamp(clock - 5 * MINUTE, 0)))
        /\ \A m \in PositiveMagnitudes, u \in RecognizedUnits, s \in AgeSuffixes :
                text = AgeText(m.text, u.text, s)
                    => AgeAsStated(Val(parsed), clock, m.num * u.seconds, m.den)
        /\ text = AGE_1E9_HOURS => Val(parsed).raised = NoError
        /\ text = AGE_1E_7_SECONDS
            => /\ Val(parsed).raised = NoError
               /\ Val(parsed).value # None
               /\ StrictlyEarlier(Val(Val(parsed).value), clock)

(***************************************************************************)
(* C13.  For every text that cannot be read as a relative age (empty text, *)
(* no unit token, a magnitude that is not a number, a magnitude that       *)
(* parses as a non-finite number, or a unit that is not recognized such as *)
(* "days" or "hr"), parse_age_text returns None and does not raise.        *)
(***************************************************************************)
NonNumericMagnitudes ==
    {<<"a","b","c">>, <<"f","i","v","e">>, <<"1","h">>, <<"5","m">>}

NonFiniteMagnitudes ==
    {<<"i","n","f">>, <<"-","i","n","f">>, <<"n","a","n">>,
     <<"i","n","f","i","n","i","t","y">>}

UnrecognizedUnits ==
    {<<"d","a","y","s">>, <<"d","a","y">>, <<"h","r">>, <<"h","r","s">>,
     <<"m">>, <<"w","e","e","k","s">>, <<"a","g","o">>,
     <<"m","o","n","t","h">>}

Uninterpretable(t) ==
    \/ strip(t) = <<>>
    \/ t = AGE_GIBBERISH
    \/ \E m \in AgeMagnitudes, s \in AgeSuffixes : t = AgeText(m, <<>>, s)
    \/ \E m \in NonNumericMagnitudes \cup NonFiniteMagnitudes,
           u \in AgeUnits, s \in AgeSuffixes : t = AgeText(m, u, s)
    \/ \E m \in AgeMagnitudes, u \in UnrecognizedUnits, s \in AgeSuffixes :
            t = AgeText(m, u, s)

C13_UninterpretableIsAbsent ==
    (pc = "parse_age_text" /\ parsed # None /\ Uninterpretable(text)) =>
        /\ Val(parsed).raised = NoError
        /\ Val(parsed).value = None

(***************************************************************************)
(* C14.  The records one scrape_subreddit pass hands to the insert are     *)
(* exactly the post elements of the rendered page that have a non-empty    *)
(* title, a determinable creation time within the staleness window and a   *)
(* non-empty permalink, one record per such element, in DOM order: every   *)
(* element examined is saved exactly when it has these three, and the pass *)
(* ends only when every element of the page has been examined.  For the    *)
(* page of three posts (no title, 6 hours old, valid with "2.3k" at 10     *)
(* minutes) exactly one record is produced, with score 2300.               *)
(***************************************************************************)
HasTitle(e) == e.h3 # None /\ strip(Val(e.h3)) # <<>>

HasPermalink(e) == e.permalink_el /\ e.href # None /\ e.href # Some(<<>>)

\* dtr is the creation time as post_datetime determines it
WithinWindow(dtr, now) ==
    /\ dtr.raised = NoError
    /\ dtr.value # None
    /\ now - utc_instant(Val(dtr.value)) <= POST_MAX_AGE_HOURS * HOUR

Eligible(e, now) ==
    /\ HasTitle(e)
    /\ WithinWindow(post_datetime(e, now), now)
    /\ HasPermalink(e)

PassEnded == pc \in {"screenshot", "cooldown"} /\ page # <<>>

C14_SavedAreExactlyEligible ==
    /\ (pc = "posts" /\ pi > 1)
        => (last.outcome = "saved" <=> Eligible(Examined, clock))
    /\ PassEnded => pi = Len(page) + 1
    /\ (PassEnded /\ page = [k \in 1..3 |-> Instantiate(EXAMPLE_PAGE[k], clock)])
        => /\ valid_count = 1
           /\ Val(last.rec).score = 2300

(***************************************************************************)
(* C15.  An href starting with "/" is resolved to the fixed origin         *)
(* followed by the href, any other href is the post URL unchanged, and     *)
(* when the post URL contains the comments marker the post_id is the path  *)
(* segment right after its first occurrence;                               *)
(* "/r/x/comments/abc123/title/" gives the URL on the origin and the       *)
(* post_id "abc123".                                                       *)
(***************************************************************************)
MarkerAt(url, i) ==
    /\ i + Len(COMMENTS_MARKER) - 1 <= Len(url)
    /\ SubSeq(url, i, i + Len(COMMENTS_MARKER) - 1) = COMMENTS_MARKER

\* id runs from the end of the marker at i up to the next "/" or the end
SegmentAfter(url, i, id) ==
    /\ id = SubSeq(url, i + Len(COMMENTS_MARKER),
                   i + Len(COMMENTS_MARKER) + Len(id) - 1)
    /\ \A k \in 1..Len(id) : id[k] # "/"
    /\ \/ i + Len(COMMENTS_MARKER) + Len(id) > Len(url)
       \/ url[i + Len(COMMENTS_MARKER) + Len(id)] = "/"

C15_PermalinkAndPostId ==
    (pc = "resolve_permalink" /\ parsed # None) =>
        /\ Head(text) = "/" => Val(parsed).post_url = ORIGIN \o text
        /\ Head(text) # "/" => Val(parsed).post_url = text
        /\ \A i \in 1..Len(Val(parsed).post_url) :
              (/\ MarkerAt(Val(parsed).post_url, i)
               /\ \A j \in 1..(i - 1) : ~MarkerAt(Val(parsed).post_url, j))
                  => SegmentAfter(Val(parsed).post_url, i, Val(parsed).post_id)
        /\ text = HREF_EXAMPLE
            => /\ Val(parsed).post_url = ORIGIN \o HREF_EXAMPLE
               /\ Val(parsed).post_id = <<"a","b","c","1","2","3">>

\* the example href resolved, with its post_id
C15_Witness ==
    /\ pc = "resolve_permalink"
    /\ text = HREF_EXAMPLE
    /\ parsed = Some([post_url |-> ORIGIN \o HREF_EXAMPLE,
                      post_id |-> <<"a","b","c","1","2","3">>])

(***************************************************************************)
(* C16.  The browser session is opened exactly once per run that has a     *)
(* non-empty selection and is closed before the idle sleep of that run     *)
(* begins: no session is open while the scheduler is idle, backing off,    *)
(* selecting or about to launch; exactly one session has been opened and   *)
(* is open while the forums of the run are scraped, however many of them   *)
(* failed.                                                                 *)
(***************************************************************************)
C16_BrowserLifetime ==
    /\ [](/\ pc \in {"idle", "backoff", "selecting", "launch"} => ~browser
          /\ pc \in {"scrape", "posts", "screenshot", "cooldown", "close"}
                => (browser /\ sessions = 1 /\ selected # <<>>)
          /\ pc = "idle" => sessions = 1
          /\ pc = "backoff" => sessions = 0)
    /\ [][/\ (browser' /\ ~browser) => (pc = "launch" /\ sessions' = 1)
          /\ sessions' > sessions => (browser' /\ ~browser)
          /\ pc' = "idle" => (pc = "close" /\ browser /\ ~browser')]_vars

\* the idle sleep reached with the session closed after a run over two
\* forums that both failed (nothing was saved from pages of DOM_BASIC)
C16_Witness ==
    /\ pc = "idle"
    /\ ~browser
    /\ sessions = 1
    /\ dom = DOM_BASIC
    /\ Len(visited) = 2
    /\ store = {}

(***************************************************************************)
(* C17.  When the database connection cannot be established at startup,    *)
(* run_scraper ends with that error at once and never enters its loop:     *)
(* nothing is selected, no browser session is opened, no forum is visited  *)
(* and nothing is inserted, and no step follows.                           *)
(***************************************************************************)
C17_ConnectFailureHalts ==
    /\ [](error = "connect_db" =>
            /\ pc = "terminated"
            /\ selected = <<>>
            /\ subreddits = <<>>
            /\ visited = <<>>
            /\ ~browser
            /\ sessions = 0
            /\ page = <<>>
            /\ store = {}
            /\ clock = 0)
    /\ [][/\ pc = "connect_db" =>
                \/ pc' = "selecting" /\ error' = NoError
                \/ pc' = "terminated" /\ error' = "connect_db"
          /\ pc # "terminated"]_vars

\* the connection failed and run_scraper has ended
C17_Witness ==
    /\ pc = "terminated"
    /\ error = "connect_db"
    /\ SUBREDDITS # <<>>

(***************************************************************************)
(* C18.  With an empty forum list every SELECTING phase opens no browser   *)
(* session and scrapes nothing: selection is followed directly by the      *)
(* backoff sleep of 120 to 240 seconds, and the backoff by a new           *)
(* selection, on every iteration.                                          *)
(***************************************************************************)
C18_EmptyListBacksOff ==
    /\ [](SUBREDDITS = <<>> =>
            /\ pc \in {"connect_db", "selecting", "backoff", "terminated"}
            /\ ~browser
            /\ sessions = 0
            /\ visited = <<>>
            /\ page = <<>>
            /\ store = {})
    /\ [][SUBREDDITS = <<>> =>
            /\ pc = "selecting" => (pc' = "backoff" /\ selected' = <<>>)
            /\ pc = "backoff" =>
                  /\ pc' = "selecting"
                  /\ clock' - clock \in BACKOFF_MIN_SEC..BACKOFF_MAX_SEC]_vars

\* after a backoff sleep the next selection has ended in the backoff sleep
\* again
C18_Witness ==
    /\ SUBREDDITS = <<>>
    /\ pc = "backoff"
    /\ selected = <<>>
    /\ clock >= BACKOFF_MIN_SEC

(***************************************************************************)
(* C19.  The creation time of a post is the one its datetime attribute     *)
(* denotes whenever the attribute is present and parses as ISO-8601 (a     *)
(* trailing "Z" read as UTC); the relative-age text is used only when the  *)
(* attribute is absent or does not parse; and the post is skipped, without *)
(* a record and without an error, exactly when neither source gives a      *)
(* time.  The time an attribute denotes is its reading as written, which   *)
(* with a trailing "Z" is the UTC time.                                    *)
(***************************************************************************)
\* the element the last iteration dealt with; pi stays on it when it raised
Handled == IF pc = "posts" THEN page[pi - 1] ELSE page[pi]

IterationDone == pc \in {"posts", "screenshot"} /\ last # NoOutcome

\* r is what the relative-age parser makes of the anchor text
AgeGivesTime(r) == r.raised = NoError /\ r.value # None

TextGivesTime(e, now) ==
    /\ e.anchor # None
    /\ AgeGivesTime(parse_age_text(strip(Val(e.anchor)), now))

BothFail(e, now) == attribute_datetime(e) = None /\ ~TextGivesTime(e, now)

Skipped(o) == o.rec = None /\ o.raised = NoError

C19_CreationTimeSource ==
    IterationDone =>
        /\ (last.rec # None /\ attribute_datetime(Handled) # None)
            => Val(last.rec).created_at
                  = Val(attribute_datetime(Handled)).wall
        /\ (last.rec # None /\ attribute_datetime(Handled) = None)
            => /\ TextGivesTime(Handled, clock)
               /\ Val(last.rec).created_at
                     = Val(parse_age_text(strip(Val(Handled.anchor)),
                                          clock).value).sec
        /\ BothFail(Handled, clock) => Skipped(last)
        /\ last.outcome = "no_timestamp" => BothFail(Handled, clock)

(***************************************************************************)
(* C20.  The staleness filter is one-sided: a post whose creation time, as *)
(* scrape_subreddit determines it, lies after the clock reading of the     *)
(* scrape (a negative age, from a negative relative-age magnitude or a     *)
(* skewed timestamp) is never rejected as too old, and when its iteration  *)
(* completes and it has a non-empty permalink it is handed to the insert.  *)
(***************************************************************************)
\* dtr is the creation time as post_datetime determines it
InFuture(dtr, now) ==
    /\ dtr.raised = NoError
    /\ dtr.value # None
    /\ replace_tzinfo_none(Val(dtr.value)) > now

\* the insert has run for rec: a row with its post_id is in the store
Stored(rec) == \E row \in store : row.post_id = rec.post_id

C20_FutureNeverRejected ==
    (/\ pc = "posts"
     /\ pi > 1
     /\ HasTitle(Examined)
     /\ InFuture(post_datetime(Examined, clock), clock))
        => /\ last.outcome # "too_old"
           /\ last.age # None
           /\ Val(last.age) < 0
           /\ HasPermalink(Examined)
                => (last.outcome = "saved" /\ Stored(Val(last.rec)))

\* a post whose age text is "-5 min" has been saved with a negative age
C20_Witness ==
    /\ pc = "posts"
    /\ pi > 1
    /\ Examined.anchor = Some(AGE_MINUS_5_MIN)
    /\ last.outcome = "saved"
    /\ Val(last.age) = 0 - 5 * MINUTE
    /\ Stored(Val(last.rec))

=========================================================================
